---- MODULE Spec2Model ----
(***************************************************************************)
(* Model of the blend library (github.com/phrozen/blend): the colour       *)
(* conversion (color2rgbaf64, rgbaf64.RGBA, float64ToUint16), the channel  *)
(* blend functions, the pixel dispatch (blendPerChannel, DarkerColor,      *)
(* LighterColor) and the two compositors BlendImage and BlendNewImage.     *)
(*                                                                         *)
(* float64 values are carried as m * 2^e over arbitrary-size naturals m    *)
(* (TLC's integers are 32 bits wide, the products of two 16-bit channels   *)
(* are not), extended with +Inf, -Inf and NaN.  Every arithmetic operator  *)
(* rounds its exact result to the nearest float64, ties to even (IEEE 754  *)
(* binary64: 53-bit significand, subnormals, overflow to infinity).  The   *)
(* sign of zero is not carried.                                            *)
(***************************************************************************)
EXTENDS Integers, Sequences, FiniteSets, TLC

(***************************************************************************)
(* Naturals of arbitrary size: little-endian sequences of limbs in         *)
(* 0..Base-1 without high zero limbs; <<>> is zero.                        *)
(***************************************************************************)
Base == 2^15

Rest(a) == IF a = <<>> THEN <<>> ELSE Tail(a)

Limb1(a) == IF a = <<>> THEN 0 ELSE a[1]

RECURSIVE BigTrim(_)
BigTrim(a) ==
  IF a = <<>> THEN a
  ELSE IF a[Len(a)] = 0 THEN BigTrim(SubSeq(a, 1, Len(a) - 1)) ELSE a

RECURSIVE BigOfNat(_)
BigOfNat(n) == IF n = 0 THEN <<>> ELSE <<n % Base>> \o BigOfNat(n \div Base)

\* Only used on values below 2^31.
RECURSIVE BigToNat(_)
BigToNat(a) == IF a = <<>> THEN 0 ELSE a[1] + Base * BigToNat(Tail(a))

RECURSIVE BigAddC(_, _, _)
BigAddC(a, b, c) ==
  IF a = <<>> /\ b = <<>> THEN (IF c = 0 THEN <<>> ELSE <<c>>)
  ELSE LET t == Limb1(a) + Limb1(b) + c
       IN  <<t % Base>> \o BigAddC(Rest(a), Rest(b), t \div Base)

BigAdd(a, b) == BigAddC(a, b, 0)

\* a - b for a >= b.
RECURSIVE BigSubB(_, _, _)
BigSubB(a, b, br) ==
  IF a = <<>> THEN <<>>
  ELSE LET t == a[1] - Limb1(b) - br
       IN  <<IF t < 0 THEN t + Base ELSE t>>
             \o BigSubB(Tail(a), Rest(b), IF t < 0 THEN 1 ELSE 0)

BigSub(a, b) == BigTrim(BigSubB(a, b, 0))

RECURSIVE BigMulLimb(_, _, _)
BigMulLimb(a, m, c) ==
  IF a = <<>> THEN (IF c = 0 THEN <<>> ELSE <<c>>)
  ELSE LET t == a[1] * m + c
       IN  <<t % Base>> \o BigMulLimb(Tail(a), m, t \div Base)

BigShift(a) == IF a = <<>> THEN <<>> ELSE <<0>> \o a

RECURSIVE BigMul(_, _)
BigMul(a, b) ==
  IF a = <<>> \/ b = <<>> THEN <<>>
  ELSE BigAdd(IF a[1] = 0 THEN <<>> ELSE BigMulLimb(b, a[1], 0),
              BigShift(BigMul(Tail(a), b)))

\* -1, 0, 1 as a < b, a = b, a > b.
RECURSIVE BigCmpAt(_, _, _)
BigCmpAt(a, b, i) ==
  IF i = 0 THEN 0
  ELSE IF a[i] < b[i] THEN -1
  ELSE IF a[i] > b[i] THEN 1
  ELSE BigCmpAt(a, b, i - 1)

BigCmp(a, b) ==
  IF Len(a) < Len(b) THEN -1
  ELSE IF Len(a) > Len(b) THEN 1
  ELSE BigCmpAt(a, b, Len(a))

BigOne == <<1>>

Min2(a, b) == IF a < b THEN a ELSE b

Max2(a, b) == IF a > b THEN a ELSE b

\* The number of bits of a natural below 2 * Base, and of a limb sequence
\* (limbs have 15 bits).
BitLenNat(n) == CHOOSE j \in 0 .. 16 : n < 2^j /\ (j = 0 \/ 2^(j - 1) <= n)

BitLen(a) == IF a = <<>> THEN 0 ELSE 15 * (Len(a) - 1) + BitLenNat(a[Len(a)])

\* The number of low zero bits of a non-zero natural.
RECURSIVE BigTz(_)
BigTz(a) ==
  IF a[1] = 0 THEN 15 + BigTz(Tail(a))
  ELSE CHOOSE j \in 0 .. 14 : a[1] % 2^j = 0 /\ a[1] % 2^(j + 1) # 0

\* a * 2^k and floor(a / 2^k).
BigShl(a, k) ==
  IF a = <<>> \/ k = 0 THEN a
  ELSE [i \in 1 .. k \div 15 |-> 0] \o BigMulLimb(a, 2^(k % 15), 0)

BigShrBits(b, j) ==
  BigTrim([i \in 1 .. Len(b) |->
             (b[i] \div 2^j)
               + (IF i < Len(b) THEN (b[i + 1] % 2^j) * 2^(15 - j) ELSE 0)])

BigShr(a, k) ==
  IF k \div 15 >= Len(a) THEN <<>>
  ELSE BigShrBits(SubSeq(a, k \div 15 + 1, Len(a)), k % 15)

\* Long division by a divisor D whose top limb is at least Base/2.  A digit
\* of the quotient is estimated from the top limbs of the running remainder
\* R1 and of D; the estimate is at most 2 too large.
RECURSIVE DivDigitFix(_, _, _)
DivDigitFix(R, D, q) ==
  IF q = 0 THEN 0
  ELSE IF BigCmp(BigMulLimb(D, q, 0), R) > 0 THEN DivDigitFix(R, D, q - 1)
  ELSE q

DivDigit(R, D) ==
  DivDigitFix(R, D,
              Min2(((IF Len(R) > Len(D) THEN R[Len(D) + 1] ELSE 0) * Base
                      + (IF Len(R) >= Len(D) THEN R[Len(D)] ELSE 0))
                     \div D[Len(D)],
                   Base - 1))

RECURSIVE BigDivGo(_, _, _, _, _)
RECURSIVE BigDivPut(_, _, _, _, _, _)
BigDivGo(N, D, i, R, Q) ==
  IF i = 0 THEN [q |-> BigTrim(Q), r |-> R]
  ELSE BigDivPut(N, D, i, BigTrim(<<N[i]>> \o R), Q,
                 DivDigit(BigTrim(<<N[i]>> \o R), D))

BigDivPut(N, D, i, R1, Q, q) ==
  BigDivGo(N, D, i - 1,
           IF q = 0 THEN R1 ELSE BigSub(R1, BigMulLimb(D, q, 0)),
           <<q>> \o Q)

\* [q |-> floor(N / D), r |-> N - q * D]
BigDivMod(N, D) == BigDivGo(N, D, Len(N), <<>>, <<>>)

(***************************************************************************)
(* float64 values: a finite value is (-1)^neg * m * 2^e for a natural m    *)
(* and an integer e (zero has neg = FALSE and e = 0); the other kinds are  *)
(* the infinities and NaN.                                                 *)
(***************************************************************************)
Dyadic(neg, m, e) ==
  [k |-> "fin", neg |-> (neg /\ m # <<>>), m |-> m,
   e |-> IF m = <<>> THEN 0 ELSE e]

Inf(neg) == [k |-> "inf", neg |-> neg, m |-> <<>>, e |-> 0]

NaN == [k |-> "nan", neg |-> FALSE, m |-> <<>>, e |-> 0]

\* float64(i) for an integer i, and the constant 0.5.
F64(i) == Dyadic(i < 0, BigOfNat(IF i < 0 THEN -i ELSE i), 0)

Half == Dyadic(FALSE, BigOne, 0 - 1)

IsZero(x) == x.k = "fin" /\ x.m = <<>>

\* binary64: the width of the significand, the exponent of the smallest
\* quantum and the exponent at which values overflow.
MantBits == 53

MinExp == 0 - 1074

MaxExp == 1024

\* The value q * 2^e with the common factors of two removed.
Norm(neg, q, e) ==
  IF q = <<>> \/ e >= 0 THEN Dyadic(neg, q, e)
  ELSE Dyadic(neg, BigShr(q, Min2(BigTz(q), 0 - e)),
              e + Min2(BigTz(q), 0 - e))

\* An unrounded result: (-1)^neg * (m + f) * 2^e, where the fraction f is 0
\* when st is FALSE and some value strictly between 0 and 1 when st is TRUE.
Exact(neg, m, st, e) == [neg |-> neg, m |-> m, st |-> st, e |-> e]

\* Rounding to the nearest float64, ties to even.  The result keeps the bits
\* of m above its lowest t bits, t being what exceeds the 53 bits of the
\* significand or lies below the smallest quantum; q is m without those
\* bits and c the sign of (the discarded part - half of 2^t).
RoundOut(neg, q, e) ==
  IF BitLen(q) + e > MaxExp THEN Inf(neg) ELSE Norm(neg, q, e)

RoundUp(neg, q, e, c) ==
  RoundOut(neg,
           IF c > 0 \/ (c = 0 /\ Limb1(q) % 2 = 1) THEN BigAdd(q, BigOne)
           ELSE q,
           e)

HalfCmp(r, t, st) ==
  IF r = BigShl(BigOne, t - 1) THEN (IF st THEN 1 ELSE 0)
  ELSE BigCmp(r, BigShl(BigOne, t - 1))

RoundTo(v, t, q) ==
  RoundUp(v.neg, q, v.e + t, HalfCmp(BigSub(v.m, BigShl(q, t)), t, v.st))

RoundCut(v, t) ==
  IF t <= 0 THEN RoundOut(v.neg, v.m, v.e) ELSE RoundTo(v, t, BigShr(v.m, t))

RoundF64(v) == RoundCut(v, Max2(BitLen(v.m) - MantBits, MinExp - v.e))

\* n / d * 2^e for n, d > 0: the quotient of n * 2^s by d has more bits than
\* a significand, and its remainder only matters as zero or not.  The long
\* division wants both shifted left by na, which fills d's top limb.
QuotExact(neg, qr, e) == Exact(neg, qr.q, qr.r # <<>>, e)

QuotAt(neg, n, d, e, s, na) ==
  QuotExact(neg, BigDivMod(BigShl(n, s + na), BigShl(d, na)), e - s)

Quot(neg, n, d, e) ==
  QuotAt(neg, n, d, e, Max2(0, MantBits + 3 - (BitLen(n) - BitLen(d))),
         15 - BitLenNat(d[Len(d)]))

\* The float64 nearest to the rational (-1)^neg * n / d, and to p / q.
Fin(neg, n, d) ==
  IF n = <<>> THEN Dyadic(FALSE, <<>>, 0) ELSE RoundF64(Quot(neg, n, d, 0))

Ratio(p, q) == Fin(FALSE, BigOfNat(p), BigOfNat(q))

F64Neg(x) == IF x.k = "nan" \/ IsZero(x) THEN x ELSE [x EXCEPT !.neg = ~x.neg]

\* A non-zero finite x has 2^(Top(x) - 1) <= |x| < 2^Top(x).
Top(x) == BitLen(x.m) + x.e

Signed(neg, c) == IF neg THEN -c ELSE c

\* Sign of |x| - |y| for finite x and y.
MagCmp(x, y) ==
  IF x.m = <<>> \/ y.m = <<>>
    THEN (IF x.m = y.m THEN 0 ELSE IF x.m = <<>> THEN -1 ELSE 1)
  ELSE IF Top(x) # Top(y) THEN (IF Top(x) < Top(y) THEN -1 ELSE 1)
  ELSE BigCmp(BigShl(x.m, x.e - Min2(x.e, y.e)),
              BigShl(y.m, y.e - Min2(x.e, y.e)))

\* Sign of x - y for finite x and y.
FinCmp(x, y) ==
  IF x.neg # y.neg THEN (IF x.neg THEN -1 ELSE 1)
  ELSE Signed(x.neg, MagCmp(x, y))

\* Sign of x - y for values that are not NaN.
F64Cmp(x, y) ==
  IF x.k = "inf" THEN (IF y.k = "inf" /\ y.neg = x.neg THEN 0
                       ELSE IF x.neg THEN -1 ELSE 1)
  ELSE IF y.k = "inf" THEN (IF y.neg THEN 1 ELSE -1)
  ELSE FinCmp(x, y)

\* The comparison operators of float64: every comparison with NaN is false.
F64Lt(x, y) == x.k # "nan" /\ y.k # "nan" /\ F64Cmp(x, y) < 0

F64Gt(x, y) == x.k # "nan" /\ y.k # "nan" /\ F64Cmp(x, y) > 0

F64Eq(x, y) == x.k # "nan" /\ y.k # "nan" /\ F64Cmp(x, y) = 0

\* The exact sum (-1)^xneg * xn * 2^e + (-1)^yneg * yn * 2^e
FinAddOver(xneg, xn, yneg, yn, e) ==
  IF xneg = yneg THEN Exact(xneg, BigAdd(xn, yn), FALSE, e)
  ELSE IF BigCmp(xn, yn) >= 0 THEN Exact(xneg, BigSub(xn, yn), FALSE, e)
  ELSE Exact(yneg, BigSub(yn, xn), FALSE, e)

\* x + y for a y of sign yneg and of magnitude below 2^(x.e - s): in units
\* of 2^(x.e - s), strictly between m * 2^s - 1 and m * 2^s + 1.  The shift
\* s leaves more bits than a significand holds.
FarShift(x) == Max2(2, MantBits + 2 - BitLen(x.m))

FinAddFar(x, yneg, s) ==
  Exact(x.neg,
        IF yneg = x.neg THEN BigShl(x.m, s)
        ELSE BigSub(BigShl(x.m, s), BigOne),
        TRUE, x.e - s)

\* The unrounded x + y, for finite x and y.
FinAddExact(x, y) ==
  IF IsZero(y) THEN Exact(x.neg, x.m, FALSE, x.e)
  ELSE IF IsZero(x) THEN Exact(y.neg, y.m, FALSE, y.e)
  ELSE IF Top(y) <= x.e - FarShift(x) THEN FinAddFar(x, y.neg, FarShift(x))
  ELSE IF Top(x) <= y.e - FarShift(y) THEN FinAddFar(y, x.neg, FarShift(y))
  ELSE FinAddOver(x.neg, BigShl(x.m, x.e - Min2(x.e, y.e)),
                  y.neg, BigShl(y.m, y.e - Min2(x.e, y.e)), Min2(x.e, y.e))

FinAdd(x, y) == RoundF64(FinAddExact(x, y))

F64Add(x, y) ==
  IF x.k = "nan" \/ y.k = "nan" THEN NaN
  ELSE IF x.k = "inf" THEN (IF y.k = "inf" /\ y.neg # x.neg THEN NaN ELSE x)
  ELSE IF y.k = "inf" THEN y
  ELSE FinAdd(x, y)

F64Sub(x, y) == F64Add(x, F64Neg(y))

F64Mul(x, y) ==
  IF x.k = "nan" \/ y.k = "nan" THEN NaN
  ELSE IF x.k = "inf" \/ y.k = "inf"
       THEN (IF IsZero(x) \/ IsZero(y) THEN NaN ELSE Inf(x.neg # y.neg))
  ELSE RoundF64(Exact(x.neg # y.neg, BigMul(x.m, y.m), FALSE, x.e + y.e))

\* x*y + z as one operation: the exact product and sum, rounded once.
F64Fma(x, y, z) ==
  IF x.k # "fin" \/ y.k # "fin" \/ z.k # "fin" THEN F64Add(F64Mul(x, y), z)
  ELSE RoundF64(FinAddExact(Dyadic(x.neg # y.neg, BigMul(x.m, y.m), x.e + y.e),
                            z))

\* x / y: a non-zero value over zero is an infinity, 0/0 is NaN.
F64Div(x, y) ==
  IF x.k = "nan" \/ y.k = "nan" THEN NaN
  ELSE IF x.k = "inf" THEN (IF y.k = "inf" THEN NaN ELSE Inf(x.neg # y.neg))
  ELSE IF y.k = "inf" \/ (IsZero(x) /\ ~IsZero(y)) THEN F64(0)
  ELSE IF IsZero(y) THEN (IF IsZero(x) THEN NaN ELSE Inf(x.neg))
  ELSE RoundF64(Quot(x.neg # y.neg, x.m, y.m, x.e - y.e))

\* math.Min, math.Max, math.Abs.
MathMin(x, y) ==
  IF (x.k = "inf" /\ x.neg) \/ (y.k = "inf" /\ y.neg) THEN Inf(TRUE)
  ELSE IF x.k = "nan" \/ y.k = "nan" THEN NaN
  ELSE IF F64Cmp(x, y) < 0 THEN x ELSE y

MathMax(x, y) ==
  IF (x.k = "inf" /\ ~x.neg) \/ (y.k = "inf" /\ ~y.neg) THEN Inf(FALSE)
  ELSE IF x.k = "nan" \/ y.k = "nan" THEN NaN
  ELSE IF F64Cmp(x, y) > 0 THEN x ELSE y

MathAbs(x) == [x EXCEPT !.neg = FALSE]

\* int(x) for a finite x of magnitude below 2^31: truncation toward zero.
IntOf(x) ==
  Signed(x.neg, BigToNat(IF x.e >= 0 THEN BigShl(x.m, x.e)
                         ELSE BigShr(x.m, 0 - x.e)))

(***************************************************************************)
(* State.  nanLow16 and fuseMulAdd are properties of the build: the low 16  *)
(* bits of int(NaN), which Go leaves implementation-dependent, and whether *)
(* the compiler fuses x*y + z into one operation rounded once, which Go    *)
(* allows (it does on arm64, ppc64le, s390x, riscv64 and amd64 v3).        *)
(***************************************************************************)
VARIABLES
  nanLow16,   \* uint16(int(NaN)) of the build
  fuseMulAdd, \* whether the build fuses x*y + z
  dst,        \* the bottom layer: [kind, b, pix]
  src,        \* the top layer: [kind, b, pix]
  mode,       \* the BlendFunc passed to the running call
  pc,         \* "idle", "done" or the entry point that is running
  call,       \* the entry point of the last call, "none" before it
  inter,      \* the call's local  inter
  img,        \* the call's local  img  (BlendNewImage), then its result
  x, y,       \* the loop variables
  dst0,       \* history: dst when the call started
  src0,       \* history: src when the call started
  err,        \* the error value the call returned, "nil" when none
  writes,     \* history: the coordinates of the call's Set calls, in order
  op,         \* pure functions: the function applied last, "none" before
  arg,        \* pure functions: the mode or channel function it was given
  args,       \* pure functions: its inputs
  res         \* pure functions: its result

vars == <<nanLow16, fuseMulAdd, dst, src, mode, pc, call, inter, img, x, y, dst0, src0,
          err, writes, op, arg, args, res>>

imgVars == <<dst, src, mode, pc, call, inter, img, x, y, dst0, src0, err,
             writes>>

fnVars == <<op, arg, args, res>>

(***************************************************************************)
(* Constants of blend.go.                                                  *)
(***************************************************************************)
max == 65535

fmax == F64(max)

mid == F64Div(fmax, F64(2))

(***************************************************************************)
(* Conversions (the unnamed util/color files).                             *)
(***************************************************************************)
\* The outcomes of uint16(int(NaN)) among Go's ports: 0 where int(NaN) is 0
\* or the minimum int (arm64, amd64), 65535 where it is the maximum int
\* (riscv64).
NaNLow16 == {0, max}

\* a*b + c where the source has a product as an operand of a sum: two
\* operations, each rounded, or one fused operation, as the build does.
MulAdd(a, b, c) ==
  IF fuseMulAdd THEN F64Fma(a, b, c) ELSE F64Add(F64Mul(a, b), c)

\* uint16(int(w)) for the values w = v + 0.5 that reach the conversion, on
\* a build whose int(NaN) has the low 16 bits n16.
Uint16OfInt(w, n16) ==
  IF w.k = "nan" THEN n16 ELSE IntOf(w) % (max + 1)

\* float64ToUint16 on a build whose int(NaN) has the low 16 bits n16.
Float64ToUint16On(v, n16) ==
  IF F64Lt(v, F64(0)) THEN 0
  ELSE IF F64Gt(v, F64(65535)) THEN 65535
  ELSE Uint16OfInt(F64Add(v, Half), n16)

float64ToUint16_NoRound(v) ==
  IF F64Lt(v, F64(0)) THEN 0
  ELSE IF F64Gt(v, F64(65535)) THEN 65535
  ELSE Uint16OfInt(v, nanLow16)

float64ToUint16_AsUint8(v) ==
  IF F64Lt(v, F64(0)) THEN 0
  ELSE IF F64Gt(v, F64(255)) THEN 255
  ELSE Uint16OfInt(F64Add(v, Half), nanLow16)

float64ToUint16(v) == Float64ToUint16On(v, nanLow16)

\* Colours: an rgbaf64 holds four float64, a color.RGBA64 four 16-bit and a
\* color.RGBA four 8-bit values.
Rgbaf64(r, g, b, a) == [t |-> "rgbaf64", r |-> r, g |-> g, b |-> b, a |-> a]

RGBA64Color(r, g, b, a) == [t |-> "RGBA64", r |-> r, g |-> g, b |-> b, a |-> a]

RGBAColor(r, g, b, a) == [t |-> "RGBA", r |-> r, g |-> g, b |-> b, a |-> a]

\* The i-th of the fields r, g, b, a of a colour.
Field(c, i) == IF i = 1 THEN c.r ELSE IF i = 2 THEN c.g ELSE IF i = 3 THEN c.b ELSE c.a

\* c.RGBA(): the four 16-bit channels of a colour, as <<r, g, b, a>>:
\* rgbaf64.RGBA converts each field, color.RGBA.RGBA repeats each byte.
RGBA(c) ==
  [i \in 1 .. 4 |->
     IF c.t = "rgbaf64" THEN float64ToUint16(Field(c, i))
     ELSE IF c.t = "RGBA" THEN Field(c, i) * 257
     ELSE Field(c, i)]

\* rgbaf64{float64(r), float64(g), float64(b), float64(a)}
Rgbaf64Of(q) == Rgbaf64(F64(q[1]), F64(q[2]), F64(q[3]), F64(q[4]))

color2rgbaf64(c) == Rgbaf64Of(RGBA(c))

(***************************************************************************)
(* Channel blend functions (blend.go, current revision): d is the          *)
(* destination and s the source channel.                                   *)
(***************************************************************************)
darken_Half(d, s) == F64Div(MathMin(d, s), F64(2))

darken(d, s) == MathMin(d, s)

multiply_OverMid(d, s) == F64Div(F64Mul(s, d), mid)

multiply(d, s) == F64Div(F64Mul(s, d), fmax)

colorBurn(d, s) ==
  IF F64Eq(s, F64(0)) THEN s
  ELSE MathMax(F64(0), F64Sub(fmax, F64Div(F64Mul(F64Sub(fmax, d), fmax), s)))

linearBurn(d, s) ==
  IF F64Lt(F64Add(s, d), fmax) THEN F64(0)
  ELSE F64Sub(F64Add(s, d), fmax)

lighten(d, s) == MathMax(d, s)

screen(d, s) == F64Sub(F64Add(s, d), F64Div(F64Mul(s, d), fmax))

colorDodge(d, s) ==
  IF F64Eq(s, fmax) THEN s
  ELSE MathMin(fmax, F64Div(F64Mul(d, fmax), F64Sub(fmax, s)))

linearDodge(d, s) == MathMin(F64Add(s, d), fmax)

overlay(d, s) ==
  IF F64Lt(d, mid) THEN F64Div(F64Mul(F64Mul(F64(2), s), d), fmax)
  ELSE F64Sub(fmax,
              F64Div(F64Mul(F64Mul(F64(2), F64Sub(fmax, s)), F64Sub(fmax, d)),
                     fmax))

softLight(d, s) ==
  F64Mul(F64Div(d, fmax),
         MulAdd(F64Div(F64Mul(F64(2), s), fmax), F64Sub(fmax, d), d))

hardLight(d, s) ==
  IF F64Gt(s, mid)
  THEN MulAdd(F64Sub(fmax, d), F64Div(F64Sub(s, mid), mid), d)
  ELSE F64Div(F64Mul(d, s), mid)

vividLight(d, s) ==
  IF F64Lt(s, mid) THEN colorBurn(F64Mul(F64(2), s), d)
  ELSE colorDodge(F64Mul(F64(2), F64Sub(s, mid)), d)

linearLight_NoDouble(d, s) ==
  IF F64Lt(s, mid) THEN linearBurn(s, d)
  ELSE linearDodge(F64Sub(s, mid), d)

linearLight(d, s) ==
  IF F64Lt(s, mid) THEN linearBurn(F64Mul(F64(2), s), d)
  ELSE linearDodge(F64Mul(F64(2), F64Sub(s, mid)), d)

pinLight(d, s) ==
  IF F64Lt(s, mid) THEN darken(F64Mul(F64(2), s), d)
  ELSE lighten(F64Mul(F64(2), F64Sub(s, mid)), d)

hardMix(d, s) == IF F64Lt(vividLight(d, s), mid) THEN F64(0) ELSE fmax

difference_Signed(d, s) == F64Sub(s, d)

difference(d, s) == MathAbs(F64Sub(s, d))

exclusion(d, s) == F64Sub(F64Add(s, d), F64Div(F64Mul(s, d), mid))

substract(d, s) ==
  IF F64Lt(F64Sub(d, s), F64(0)) THEN F64(0) ELSE F64Sub(d, s)

divide(d, s) == F64Add(F64Div(F64Mul(d, fmax), s), F64(1))

add(d, s) == IF F64Gt(F64Add(s, d), fmax) THEN fmax ELSE F64Add(s, d)

reflex(d, s) ==
  IF F64Eq(s, fmax) THEN s
  ELSE MathMin(fmax, F64Div(F64Mul(d, d), F64Sub(fmax, s)))

phoenix(d, s) == F64Add(F64Sub(MathMin(d, s), MathMax(d, s)), fmax)

\* The divisors each channel function divides by on the path it takes for
\* (d, s): the right operands of its  /  operators.
colorBurnDivisors(d, s) == IF F64Eq(s, F64(0)) THEN {} ELSE {s}

colorDodgeDivisors_GuardOnD(d, s) ==
  IF F64Eq(d, fmax) THEN {} ELSE {F64Sub(fmax, s)}

colorDodgeDivisors(d, s) ==
  IF F64Eq(s, fmax) THEN {} ELSE {F64Sub(fmax, s)}

reflexDivisors(d, s) == IF F64Eq(s, fmax) THEN {} ELSE {F64Sub(fmax, s)}

vividLightDivisors(d, s) ==
  IF F64Lt(s, mid) THEN colorBurnDivisors(F64Mul(F64(2), s), d)
  ELSE colorDodgeDivisors(F64Mul(F64(2), F64Sub(s, mid)), d)

Divisors(bf, d, s) ==
  CASE bf \in {"multiply", "screen", "overlay", "softLight"} -> {fmax}
    [] bf \in {"hardLight", "exclusion"} -> {mid}
    [] bf = "colorBurn" -> colorBurnDivisors(d, s)
    [] bf = "colorDodge" -> colorDodgeDivisors(d, s)
    [] bf = "reflex" -> reflexDivisors(d, s)
    [] bf \in {"vividLight", "hardMix"} -> vividLightDivisors(d, s)
    [] bf = "divide" -> {s}
    [] OTHER -> {}

\* The channel functions as values: the  bf  argument of blendPerChannel.
ChannelFuncs ==
  {"darken", "multiply", "colorBurn", "linearBurn", "lighten", "screen",
   "colorDodge", "linearDodge", "overlay", "softLight", "hardLight",
   "vividLight", "linearLight", "pinLight", "hardMix", "difference",
   "exclusion", "substract", "divide", "add", "reflex", "phoenix"}

\* bf(d, s) for a channel function value bf.
CallBf(bf, d, s) ==
  CASE bf = "darken" -> darken(d, s)
    [] bf = "multiply" -> multiply(d, s)
    [] bf = "colorBurn" -> colorBurn(d, s)
    [] bf = "linearBurn" -> linearBurn(d, s)
    [] bf = "lighten" -> lighten(d, s)
    [] bf = "screen" -> screen(d, s)
    [] bf = "colorDodge" -> colorDodge(d, s)
    [] bf = "linearDodge" -> linearDodge(d, s)
    [] bf = "overlay" -> overlay(d, s)
    [] bf = "softLight" -> softLight(d, s)
    [] bf = "hardLight" -> hardLight(d, s)
    [] bf = "vividLight" -> vividLight(d, s)
    [] bf = "linearLight" -> linearLight(d, s)
    [] bf = "pinLight" -> pinLight(d, s)
    [] bf = "hardMix" -> hardMix(d, s)
    [] bf = "difference" -> difference(d, s)
    [] bf = "exclusion" -> exclusion(d, s)
    [] bf = "substract" -> substract(d, s)
    [] bf = "divide" -> divide(d, s)
    [] bf = "add" -> add(d, s)
    [] bf = "reflex" -> reflex(d, s)
    [] bf = "phoenix" -> phoenix(d, s)

(***************************************************************************)
(* Pixel blend dispatch (blend.go): the per-channel modes, the whole-colour *)
(* modes and the Hue, Saturation, Color and Luminosity modes.              *)
(***************************************************************************)
\* rgbaf64{q.r, q.g, q.b, a}
WithAlpha(q, a) == Rgbaf64(q.r, q.g, q.b, a)

\* bf applied to the r, g and b fields of dd and ss.
PerChannelRGB(dd, ss, bf) ==
  [c \in {"r", "g", "b"} |-> CallBf(bf, dd[c], ss[c])]

\* rgbaf64{bf(d.r, s.r), bf(d.g, s.g), bf(d.b, s.b), d.a} for the converted
\* colours dd and ss.
PerChannelOf(dd, ss, bf) == WithAlpha(PerChannelRGB(dd, ss, bf), dd.a)

PerChannelOf_SrcAlpha(dd, ss, bf) == WithAlpha(PerChannelRGB(dd, ss, bf), ss.a)

blendPerChannel_SrcAlpha(d, s, bf) ==
  PerChannelOf_SrcAlpha(color2rgbaf64(d), color2rgbaf64(s), bf)

blendPerChannel(d, s, bf) ==
  PerChannelOf(color2rgbaf64(d), color2rgbaf64(s), bf)

\* c.r + c.g + c.b
SumRGB(c) == F64Add(F64Add(c.r, c.g), c.b)

DarkerColor_Lighter(d, s) ==
  IF F64Gt(SumRGB(color2rgbaf64(s)), SumRGB(color2rgbaf64(d))) THEN s ELSE d

DarkerColor(d, s) ==
  IF F64Gt(SumRGB(color2rgbaf64(s)), SumRGB(color2rgbaf64(d))) THEN d ELSE s

LighterColor(d, s) ==
  IF F64Gt(SumRGB(color2rgbaf64(s)), SumRGB(color2rgbaf64(d))) THEN s ELSE d

\* The per-channel modes: each is  blendPerChannel(dst, src, bf)  for the
\* channel function bf given here.
PerChannel ==
  [Darken |-> "darken", Multiply |-> "multiply", ColorBurn |-> "colorBurn",
   LinearBurn |-> "linearBurn", Lighten |-> "lighten", Screen |-> "screen",
   ColorDodge |-> "colorDodge", LinearDodge |-> "linearDodge",
   Overlay |-> "overlay", SoftLight |-> "softLight",
   HardLight |-> "hardLight", VividLight |-> "vividLight",
   LinearLight |-> "linearLight", PinLight |-> "pinLight",
   HardMix |-> "hardMix", Difference |-> "difference",
   Exclusion |-> "exclusion", Substract |-> "substract", Divide |-> "divide",
   Add |-> "add", Reflex |-> "reflex", Phoenix |-> "phoenix"]

\* The RGB <-> HSL transform the four HSL modes call.  blend.go only calls
\* rgb2hsl and hsl2rgb and reads the fields h, s and l; the transform itself
\* is the standard hexcone one: the hue in degrees, [0, 360), the saturation
\* in [0, 1], the lightness on the scale of the channels, [0, max]; a grey
\* has hue 0 and saturation 0.  hsl2rgb has no alpha to pass on and returns
\* an opaque colour.
HueOf(col, hi, dl) ==
  F64Mul(F64(60),
         IF F64Eq(hi, col.r)
           THEN F64Add(F64Div(F64Sub(col.g, col.b), dl),
                       IF F64Lt(col.g, col.b) THEN F64(6) ELSE F64(0))
         ELSE IF F64Eq(hi, col.g)
           THEN F64Add(F64Div(F64Sub(col.b, col.r), dl), F64(2))
         ELSE F64Add(F64Div(F64Sub(col.r, col.g), dl), F64(4)))

HslOf(col, hi, lo) ==
  [h |-> IF F64Eq(hi, lo) THEN F64(0) ELSE HueOf(col, hi, F64Sub(hi, lo)),
   s |-> IF F64Eq(hi, lo) THEN F64(0)
         ELSE F64Div(F64Sub(hi, lo),
                     IF F64Gt(F64Add(hi, lo), fmax)
                     THEN F64Sub(F64Mul(F64(2), fmax), F64Add(hi, lo))
                     ELSE F64Add(hi, lo)),
   l |-> F64Div(F64Add(hi, lo), F64(2))]

Rgb2HslOf(col) ==
  HslOf(col, MathMax(col.r, MathMax(col.g, col.b)),
        MathMin(col.r, MathMin(col.g, col.b)))

rgb2hsl(c) == Rgb2HslOf(color2rgbaf64(c))

\* The channel at the hue t, already brought into [0, 360).
Hue2RgbAt(p, q, t) ==
  IF F64Lt(t, F64(60))
    THEN F64Add(p, F64Div(F64Mul(F64Sub(q, p), t), F64(60)))
  ELSE IF F64Lt(t, F64(180)) THEN q
  ELSE IF F64Lt(t, F64(240))
    THEN F64Add(p, F64Div(F64Mul(F64Sub(q, p), F64Sub(F64(240), t)), F64(60)))
  ELSE p

hue2rgb(p, q, t) ==
  Hue2RgbAt(p, q,
            IF F64Lt(t, F64(0)) THEN F64Add(t, F64(360))
            ELSE IF F64Lt(t, F64(360)) THEN t ELSE F64Sub(t, F64(360)))

Hsl2RgbPQ(h, p, q) ==
  Rgbaf64(hue2rgb(p, q, F64Add(h, F64(120))), hue2rgb(p, q, h),
          hue2rgb(p, q, F64Sub(h, F64(120))), fmax)

Hsl2RgbQ(h, l, q) == Hsl2RgbPQ(h, F64Sub(F64Mul(F64(2), l), q), q)

hsl2rgb(h, s, l) ==
  IF F64Eq(s, F64(0)) THEN Rgbaf64(l, l, l, fmax)
  ELSE Hsl2RgbQ(h, l,
                IF F64Lt(l, mid) THEN F64Mul(l, F64Add(F64(1), s))
                ELSE F64Sub(F64Add(l, F64Mul(s, fmax)), F64Mul(l, s)))

\* The HSL modes: which of src ("s") and dst ("d") gives the hue, the
\* saturation and the lightness passed to hsl2rgb.
HslModes ==
  [Hue |-> <<"s", "d", "d">>, Saturation |-> <<"d", "s", "d">>,
   Color |-> <<"s", "s", "d">>, Luminosity |-> <<"d", "d", "s">>]

\* Hue, Saturation, Color and Luminosity on s = rgb2hsl(src) and
\* d = rgb2hsl(dst); Hue returns dst when src has no saturation.
HslBlend(m, dst_, sh, dh) ==
  IF m = "Hue" /\ F64Eq(sh.s, F64(0)) THEN dst_
  ELSE hsl2rgb(IF HslModes[m][1] = "s" THEN sh.h ELSE dh.h,
               IF HslModes[m][2] = "s" THEN sh.s ELSE dh.s,
               IF HslModes[m][3] = "s" THEN sh.l ELSE dh.l)

\* var Modes: the BlendFunc of every mode name.
Modes ==
  [add |-> "Add", color |-> "Color", color_burn |-> "ColorBurn",
   color_dodge |-> "ColorDodge", darken |-> "Darken",
   darker_color |-> "DarkerColor", difference |-> "Difference",
   divide |-> "Divide", exclusion |-> "Exclusion",
   hard_light |-> "HardLight", hard_mix |-> "HardMix", hue |-> "Hue",
   lighten |-> "Lighten", lighter_color |-> "LighterColor",
   linear_burn |-> "LinearBurn", linear_dodge |-> "LinearDodge",
   linear_light |-> "LinearLight", luminosity |-> "Luminosity",
   multiply |-> "Multiply", overlay |-> "Overlay", phoenix |-> "Phoenix",
   pin_light |-> "PinLight", reflex |-> "Reflex",
   saturation |-> "Saturation", screen |-> "Screen",
   soft_light |-> "SoftLight", substract |-> "Substract",
   vivid_light |-> "VividLight"]

\* The BlendFunc values.
BlendFuncs == {Modes[k] : k \in DOMAIN Modes}

\* mode(d, s) for a BlendFunc value m.
CallMode(m, d, s) ==
  IF m = "DarkerColor" THEN DarkerColor(d, s)
  ELSE IF m = "LighterColor" THEN LighterColor(d, s)
  ELSE IF m \in DOMAIN HslModes THEN HslBlend(m, d, rgb2hsl(s), rgb2hsl(d))
  ELSE blendPerChannel(d, s, PerChannel[m])

(***************************************************************************)
(* Images: the image.Image and draw.Image values the compositor is given.  *)
(* An image has a colour model (kind: "RGBA64" stores 16-bit, "RGBA" 8-bit *)
(* channels), bounds b and the stored channels pix[p] of every point of b. *)
(***************************************************************************)
Rect(x0, y0, x1, y1) == [minX |-> x0, minY |-> y0, maxX |-> x1, maxY |-> y1]

\* image.ZR
ZR == Rect(0, 0, 0, 0)

\* Rectangle.Empty
Empty(r) == r.minX >= r.maxX \/ r.minY >= r.maxY

\* Point.In
In(p, r) == r.minX <= p[1] /\ p[1] < r.maxX /\ r.minY <= p[2] /\ p[2] < r.maxY

Points(r) == {p \in (r.minX .. r.maxX - 1) \X (r.minY .. r.maxY - 1) : TRUE}

\* Rectangle.Intersect
Intersect(r, s) ==
  LET q == Rect(IF r.minX < s.minX THEN s.minX ELSE r.minX,
                IF r.minY < s.minY THEN s.minY ELSE r.minY,
                IF r.maxX > s.maxX THEN s.maxX ELSE r.maxX,
                IF r.maxY > s.maxY THEN s.maxY ELSE r.maxY)
  IN  IF Empty(q) THEN ZR ELSE q

\* The channels q as an image of the given colour model stores them:
\* color.RGBAModel keeps the high byte (uint8(r >> 8)).
Stored(kind, q) == IF kind = "RGBA" THEN [i \in 1 .. 4 |-> q[i] \div 256] ELSE q

\* img.ColorModel().Convert(c), as the stored channels.
Convert(kind, c) == Stored(kind, RGBA(c))

\* img.At(x, y): the zero colour outside the bounds.
At(im, p) ==
  LET q == IF In(p, im.b) THEN im.pix[p] ELSE <<0, 0, 0, 0>>
  IN  [t |-> IF im.kind = "RGBA" THEN "RGBA" ELSE "RGBA64",
       r |-> q[1], g |-> q[2], b |-> q[3], a |-> q[4]]

\* img.Set(x, y, c): nothing outside the bounds.
Set(im, p, c) ==
  IF In(p, im.b) THEN [im EXCEPT !.pix[p] = Convert(im.kind, c)] ELSE im

\* image.NewRGBA(r)
NewRGBA(r) ==
  [kind |-> "RGBA", b |-> r, pix |-> [p \in Points(r) |-> <<0, 0, 0, 0>>]]

\* image.NewRGBA64(r)
NewRGBA64(r) ==
  [kind |-> "RGBA64", b |-> r, pix |-> [p \in Points(r) |-> <<0, 0, 0, 0>>]]

NoImage == [kind |-> "none", b |-> ZR, pix |-> [p \in {} |-> <<0, 0, 0, 0>>]]

\* The loop body of BlendImage: dst.Set(x, y, mode(dst.At(x, y), src.At(x, y))).
BlendPixel_SrcFirst(d, s, m, p) == Set(d, p, CallMode(m, At(s, p), At(d, p)))

BlendPixel_ReadsLeft(d, s, m, p) ==
  Set(d, p, CallMode(m, At(d, <<p[1] - 1, p[2]>>), At(s, p)))

BlendPixel(d, s, m, p) == Set(d, p, CallMode(m, At(d, p), At(s, p)))

\* The loop body of BlendNewImage.
NewImagePixel(im, d, s, m, it, p) ==
  IF In(p, it) THEN Set(im, p, CallMode(m, At(d, p), At(s, p)))
  ELSE Set(im, p, At(d, p))

(***************************************************************************)
(* Inputs.                                                                 *)
(***************************************************************************)
MaxOrigin == 1

MaxSide == 2

NumSamples == 3

Kinds == {"RGBA64", "RGBA"}

DstRects ==
  {Rect(o, o, o + w, o + h) : o \in 0 .. MaxOrigin, w \in 1 .. MaxSide,
                              h \in 1 .. MaxSide}

\* Squares of side 1 and of side MaxSide: inside dst, around it, across its
\* border and beside it.
SrcRects ==
  {Rect(o, o, o + w, o + w) : o \in 0 .. MaxOrigin, w \in {1, MaxSide}}

\* Pixel values as <<r, g, b, a>>: opaque red, opaque blue and values whose
\* low bytes differ from their high bytes.
Palette ==
  << <<65535, 0, 0, 65535>>, <<0, 0, 65535, 65535>>,
     <<4660, 300, 40000, 32768>>, <<1, 65534, 32767, 255>>,
     <<0, 0, 0, 0>> >>

PaletteColor(i) ==
  LET q == Palette[(i % Len(Palette)) + 1]
  IN  RGBA64Color(q[1], q[2], q[3], q[4])

\* An image of the given colour model and bounds, as a decoder fills it.
MakeImage(kind, r, shift) ==
  [kind |-> kind, b |-> r,
   pix |-> [p \in Points(r) |->
              Convert(kind, PaletteColor(p[1] + 2 * p[2] + shift))]]

\* The modes the compositor is called with.
CompositorModes == {"Multiply", "DarkerColor", "Divide"}

\* Channel values: the boundary values and NumSamples spread ones.
ChanVals ==
  {0, 1, 32767, 32768, 65534, max}
    \cup {(k * 9973 + 4660) % 65536 : k \in 1 .. NumSamples}

FnColors == {PaletteColor(i) : i \in 1 .. Len(Palette)}

\* float64 values: the channel values, their quarters, values outside
\* [0, 65535], the infinities and NaN.
\* The largest float64 below 0.5: (2^53 - 1) / 2^54.
BelowHalf ==
  Dyadic(FALSE, BigSub(BigShl(BigOne, MantBits), BigOne), 0 - (MantBits + 1))

FloatSamples ==
  {Ratio(4 * c + q, 4) : c \in ChanVals, q \in 0 .. 3}
    \cup {F64Neg(Ratio(n, 4)) : n \in {1, 2, 4, 280000}}
    \cup {F64(65536), F64(70000), Inf(FALSE), Inf(TRUE), NaN, BelowHalf}

(***************************************************************************)
(* The compositor, one loop iteration per step.                            *)
(***************************************************************************)
InitFn ==
  /\ op = "none"
  /\ arg = "none"
  /\ args = <<>>
  /\ res = <<>>

InitImg ==
  /\ mode = "none"
  /\ pc = "idle"
  /\ call = "none"
  /\ inter = ZR
  /\ img = NoImage
  /\ x = 0
  /\ y = 0
  /\ err = "nil"
  /\ writes = <<>>

Init ==
  /\ nanLow16 \in NaNLow16
  /\ fuseMulAdd \in BOOLEAN
  /\ \E dk \in Kinds, sk \in Kinds, dr \in DstRects, sr \in SrcRects :
       /\ dst = MakeImage(dk, dr, 0)
       /\ src = MakeImage(sk, sr, 1)
  /\ dst0 = dst
  /\ src0 = src
  /\ InitImg
  /\ InitFn

\* BlendImage(dst, src, m) up to its first loop test (blend.go:88-92).
BlendImageCall(m) ==
  /\ pc = "idle"
  /\ mode' = m
  /\ call' = "BlendImage"
  /\ inter' = Intersect(dst.b, src.b)
  /\ y' = inter'.minY
  /\ x' = inter'.minX
  /\ pc' = "BlendImage"
  /\ dst0' = dst
  /\ src0' = src
  /\ UNCHANGED <<nanLow16, fuseMulAdd, dst, src, img, err, writes>>
  /\ UNCHANGED fnVars

\* One iteration of the inner loop, or the end of a row (blend.go:92-96).
BlendImageStep ==
  /\ pc = "BlendImage"
  /\ y < inter.maxY
  /\ IF x < inter.maxX
     THEN /\ dst' = BlendPixel(dst, src, mode, <<x, y>>)
          /\ writes' = Append(writes, <<x, y>>)
          /\ x' = x + 1
          /\ y' = y
     ELSE /\ x' = inter.minX
          /\ y' = y + 1
          /\ UNCHANGED <<dst, writes>>
  /\ UNCHANGED <<nanLow16, fuseMulAdd, src, mode, pc, call, inter, img, dst0, src0, err>>
  /\ UNCHANGED fnVars

\* The outer loop ends and BlendImage returns (blend.go:92, 97).
BlendImageReturn ==
  /\ pc = "BlendImage"
  /\ y >= inter.maxY
  /\ pc' = "done"
  /\ UNCHANGED <<nanLow16, fuseMulAdd, dst, src, mode, call, inter, img, x, y, dst0, src0,
                 err, writes>>
  /\ UNCHANGED fnVars

\* BlendNewImage(dst, src, m) up to its first loop test (blend.go:103-109).
BlendNewImageCall(m) ==
  /\ pc = "idle"
  /\ mode' = m
  /\ call' = "BlendNewImage"
  /\ inter' = Intersect(dst.b, src.b)
  /\ img' = NewRGBA(dst.b)
  /\ y' = dst.b.minY
  /\ x' = dst.b.minX
  /\ pc' = "BlendNewImage"
  /\ dst0' = dst
  /\ src0' = src
  /\ UNCHANGED <<nanLow16, fuseMulAdd, dst, src, err, writes>>
  /\ UNCHANGED fnVars

\* One iteration of the inner loop, or the end of a row (blend.go:109-120).
BlendNewImageStep ==
  /\ pc = "BlendNewImage"
  /\ y < dst.b.maxY
  /\ IF x < dst.b.maxX
     THEN /\ img' = NewImagePixel(img, dst, src, mode, inter, <<x, y>>)
          /\ writes' = Append(writes, <<x, y>>)
          /\ x' = x + 1
          /\ y' = y
     ELSE /\ x' = dst.b.minX
          /\ y' = y + 1
          /\ UNCHANGED <<img, writes>>
  /\ UNCHANGED <<nanLow16, fuseMulAdd, dst, src, mode, pc, call, inter, dst0, src0, err>>
  /\ UNCHANGED fnVars

\* The outer loop ends and BlendNewImage returns img (blend.go:109, 121).
BlendNewImageReturn ==
  /\ pc = "BlendNewImage"
  /\ y >= dst.b.maxY
  /\ pc' = "done"
  /\ UNCHANGED <<nanLow16, fuseMulAdd, dst, src, mode, call, inter, img, x, y, dst0, src0,
                 err, writes>>
  /\ UNCHANGED fnVars

Next ==
  \/ \E m \in CompositorModes : BlendImageCall(m)
  \/ BlendImageStep
  \/ BlendImageReturn
  \/ \E m \in CompositorModes : BlendNewImageCall(m)
  \/ BlendNewImageStep
  \/ BlendNewImageReturn

Spec == Init /\ [][Next]_vars

(***************************************************************************)
(* The pure functions: one application, to inputs drawn from the sets       *)
(* above, per behaviour.                                                   *)
(***************************************************************************)
InitPure ==
  /\ nanLow16 \in NaNLow16
  /\ fuseMulAdd \in BOOLEAN
  /\ dst = NoImage
  /\ src = NoImage
  /\ dst0 = NoImage
  /\ src0 = NoImage
  /\ InitImg
  /\ InitFn

\* mode(d, s) for a BlendFunc.
ApplyMode(m, d, s) ==
  /\ op = "none"
  /\ op' = "mode"
  /\ arg' = m
  /\ args' = <<d, s>>
  /\ res' = CallMode(m, d, s)
  /\ UNCHANGED <<nanLow16, fuseMulAdd>>
  /\ UNCHANGED imgVars

\* bf(float64(d), float64(s)) for a channel function.
ApplyChannel(bf, d, s) ==
  /\ op = "none"
  /\ op' = "channel"
  /\ arg' = bf
  /\ args' = <<d, s>>
  /\ res' = CallBf(bf, F64(d), F64(s))
  /\ UNCHANGED <<nanLow16, fuseMulAdd>>
  /\ UNCHANGED imgVars

\* float64ToUint16(v)
ApplyFloat64ToUint16(v) ==
  /\ op = "none"
  /\ op' = "float64ToUint16"
  /\ arg' = "none"
  /\ args' = <<v>>
  /\ res' = float64ToUint16(v)
  /\ UNCHANGED <<nanLow16, fuseMulAdd>>
  /\ UNCHANGED imgVars

\* color2rgbaf64(c).RGBA()
ApplyRoundTrip(c) ==
  /\ op = "none"
  /\ op' = "roundtrip"
  /\ arg' = "none"
  /\ args' = <<c>>
  /\ res' = RGBA(color2rgbaf64(c))
  /\ UNCHANGED <<nanLow16, fuseMulAdd>>
  /\ UNCHANGED imgVars

NextPure ==
  \/ \E m \in BlendFuncs, d \in FnColors, s \in FnColors : ApplyMode(m, d, s)
  \/ \E bf \in ChannelFuncs, d \in ChanVals, s \in ChanVals :
       ApplyChannel(bf, d, s)
  \/ \E v \in FloatSamples : ApplyFloat64ToUint16(v)
  \/ \E a \in ChanVals, b \in ChanVals :
       ApplyRoundTrip(RGBA64Color(a, b, max - a, max - b))

SpecPure == InitPure /\ [][NextPure]_vars
\* The coordinates passed to Set so far.
Written == {writes[i] : i \in 1 .. Len(writes)}

(***************************************************************************)
(* The image a call returns, as a function of its arguments.               *)
(***************************************************************************)
\* dst after BlendImage(d, s, m): the loop of blend.go:92-96 run to its end.
BlendImageResult(d, s, m) ==
  [d EXCEPT !.pix =
     [p \in Points(d.b) |->
        IF In(p, Intersect(d.b, s.b)) THEN BlendPixel(d, s, m, p).pix[p]
        ELSE d.pix[p]]]

\* The image BlendNewImage(d, s, m) returns (blend.go:107-121).
BlendNewImageResult(d, s, m) ==
  [NewRGBA(d.b) EXCEPT !.pix =
     [p \in Points(d.b) |->
        NewImagePixel(NewRGBA(d.b), d, s, m, Intersect(d.b, s.b), p).pix[p]]]

(***************************************************************************)
(* The loop body of BlendImage applied to the coordinates of the           *)
(* intersection in any order, next to the row-major loop of the code.      *)
(* Workers that share the intersection between them and run interleaved    *)
(* produce one of these orders.                                            *)
(***************************************************************************)
\* A per-channel mode and a whole-colour mode.
OrderModes == {"Multiply", "DarkerColor"}

Before(p, q) == p[2] < q[2] \/ (p[2] = q[2] /\ p[1] < q[1])

\* The log of written coordinates is kept in row-major order here.
InsertRowMajor(log, p) ==
  [i \in 1 .. Len(log) + 1 |->
     IF i <= Len(log) /\ Before(log[i], p) THEN log[i]
     ELSE IF i > 1 /\ ~Before(log[i - 1], p) THEN log[i - 1]
     ELSE p]

\* src is only read: one colour model for it is enough here.  dst has the
\* largest origin, which src covers, crosses or misses.
InitOrder ==
  /\ nanLow16 \in NaNLow16
  /\ fuseMulAdd \in BOOLEAN
  /\ \E dk \in Kinds, dr \in DstRects, sr \in SrcRects :
       /\ dr.minX = MaxOrigin
       /\ dst = MakeImage(dk, dr, 0)
       /\ src = MakeImage("RGBA64", sr, 1)
  /\ dst0 = dst
  /\ src0 = src
  /\ InitImg
  /\ InitFn

AnyOrderCall(m) ==
  /\ pc = "idle"
  /\ mode' = m
  /\ call' = "AnyOrder"
  /\ inter' = Intersect(dst.b, src.b)
  /\ pc' = "AnyOrder"
  /\ dst0' = dst
  /\ src0' = src
  /\ UNCHANGED <<nanLow16, fuseMulAdd, dst, src, img, x, y, err, writes>>
  /\ UNCHANGED fnVars

\* blend.go:94 for a coordinate of the intersection not yet processed.
AnyOrderStep ==
  /\ pc = "AnyOrder"
  /\ \E p \in Points(inter) \ Written :
       /\ dst' = BlendPixel(dst, src, mode, p)
       /\ writes' = InsertRowMajor(writes, p)
  /\ UNCHANGED <<nanLow16, fuseMulAdd, src, mode, pc, call, inter, img, x, y, dst0, src0,
                 err>>
  /\ UNCHANGED fnVars

AnyOrderReturn ==
  /\ pc = "AnyOrder"
  /\ Points(inter) \subseteq Written
  /\ pc' = "done"
  /\ UNCHANGED <<nanLow16, fuseMulAdd, dst, src, mode, call, inter, img, x, y, dst0, src0,
                 err, writes>>
  /\ UNCHANGED fnVars

NextOrder ==
  \/ \E m \in OrderModes : BlendImageCall(m)
  \/ BlendImageStep
  \/ BlendImageReturn
  \/ \E m \in OrderModes : AnyOrderCall(m)
  \/ AnyOrderStep
  \/ AnyOrderReturn

SpecOrder == InitOrder /\ [][NextOrder]_vars

(***************************************************************************)
(* Repeated calls with the same src: BlendImage on the same dst, and       *)
(* BlendNewImage on the image the previous call returned.  writes keeps    *)
(* the coordinates of all calls.                                           *)
(***************************************************************************)
MaxCalls == 3

RepeatModes == {"Darken", "Lighten"}

\* The number of Set calls one call makes.
SetsPerCall ==
  IF call = "BlendImage" THEN Cardinality(Points(inter))
  ELSE Cardinality(Points(dst0.b))

InitRepeat ==
  /\ nanLow16 \in NaNLow16
  /\ fuseMulAdd \in BOOLEAN
  /\ \E sk \in Kinds, dr \in DstRects, sr \in SrcRects :
       /\ dr.minX = 0
       /\ dst = MakeImage("RGBA64", dr, 0)
       /\ src = MakeImage(sk, sr, 1)
  /\ dst0 = dst
  /\ src0 = src
  /\ InitImg
  /\ InitFn

\* BlendImage(dst, src, mode) called again on the dst it has just changed.
BlendImageAgain ==
  /\ pc = "done"
  /\ call = "BlendImage"
  /\ Len(writes) < MaxCalls * SetsPerCall
  /\ inter' = Intersect(dst.b, src.b)
  /\ y' = inter'.minY
  /\ x' = inter'.minX
  /\ pc' = "BlendImage"
  /\ UNCHANGED <<nanLow16, fuseMulAdd, dst, src, mode, call, img, dst0, src0, err, writes>>
  /\ UNCHANGED fnVars

\* BlendNewImage(img, src, mode) called on the image the last call returned.
BlendNewImageChain ==
  /\ pc = "done"
  /\ call = "BlendNewImage"
  /\ Len(writes) < MaxCalls * SetsPerCall
  /\ dst' = img
  /\ inter' = Intersect(img.b, src.b)
  /\ img' = NewRGBA(img.b)
  /\ y' = img.b.minY
  /\ x' = img.b.minX
  /\ pc' = "BlendNewImage"
  /\ UNCHANGED <<nanLow16, fuseMulAdd, src, mode, call, dst0, src0, err, writes>>
  /\ UNCHANGED fnVars

NextRepeat ==
  \/ \E m \in RepeatModes : BlendImageCall(m)
  \/ BlendImageStep
  \/ BlendImageReturn
  \/ BlendImageAgain
  \/ \E m \in RepeatModes : BlendNewImageCall(m)
  \/ BlendNewImageStep
  \/ BlendNewImageReturn
  \/ BlendNewImageChain

SpecRepeat == InitRepeat /\ [][NextRepeat]_vars

(***************************************************************************)
(* The historical revision (blend.go:404-829): Blend(src, dst, mode), with *)
(* the source first in every signature, returns (image, error).            *)
(***************************************************************************)
multiply_per_ch(s, d) == F64Div(F64Mul(s, d), fmax)

\* The  bf  argument of blend_per_channel.
CallHistBf(bf, s, d) ==
  CASE bf = "multiply_per_ch" -> multiply_per_ch(s, d)

HistPerChannelOf(ss, dd, bf) ==
  Rgbaf64(CallHistBf(bf, ss.r, dd.r), CallHistBf(bf, ss.g, dd.g),
          CallHistBf(bf, ss.b, dd.b), dd.a)

blend_per_channel(s, d, bf) ==
  HistPerChannelOf(color2rgbaf64(s), color2rgbaf64(d), bf)

darker_color(s, d) ==
  IF F64Gt(SumRGB(color2rgbaf64(s)), SumRGB(color2rgbaf64(d))) THEN d ELSE s

\* The BlendFunc variables set by init() that the model calls Blend with.
HistModes == {"MULTIPLY", "DARKER_COLOR"}

CallHistMode(m, s, d) ==
  IF m = "DARKER_COLOR" THEN darker_color(s, d)
  ELSE blend_per_channel(s, d, "multiply_per_ch")

\* Rectangle.In, Rectangle.Dx, Rectangle.Dy
RectIn(r, s) ==
  \/ Empty(r)
  \/ /\ s.minX <= r.minX
     /\ r.maxX <= s.maxX
     /\ s.minY <= r.minY
     /\ r.maxY <= s.maxY

Dx(r) == r.maxX - r.minX

Dy(r) == r.maxY - r.minY

ErrColorModel ==
  "Top layer(src) and bot layer(dst) have different color models."

ErrBounds == "Top layer(src) does not fit into bottom layer(dst)."

\* The loop body of Blend (blend.go:503-508).
BlendLoopPixel(im, s, d, m, p) ==
  IF In(p, s.b) THEN Set(im, p, CallHistMode(m, At(s, p), At(d, p)))
  ELSE Set(im, p, At(d, p))

\* Blend(src, dst, m) up to an error return or its first loop test
\* (blend.go:483-500).
BlendCall(m) ==
  /\ pc = "idle"
  /\ mode' = m
  /\ call' = "Blend"
  /\ dst0' = dst
  /\ src0' = src
  /\ IF src.kind # dst.kind
     THEN /\ err' = ErrColorModel
          /\ pc' = "done"
          /\ UNCHANGED img
     ELSE IF ~RectIn(src.b, dst.b)
     THEN /\ err' = ErrBounds
          /\ pc' = "done"
          /\ UNCHANGED img
     ELSE /\ err' = "nil"
          /\ pc' = "Blend"
          /\ img' = NewRGBA(dst.b)
  /\ x' = 0
  /\ y' = 0
  /\ UNCHANGED <<nanLow16, fuseMulAdd, dst, src, inter, writes>>
  /\ UNCHANGED fnVars

\* One iteration of the inner loop over y, or the end of a column
\* (blend.go:500-510).
BlendStep ==
  /\ pc = "Blend"
  /\ x < Dx(dst.b)
  /\ IF y < Dy(dst.b)
     THEN /\ img' = BlendLoopPixel(img, src, dst, mode, <<x, y>>)
          /\ writes' = Append(writes, <<x, y>>)
          /\ y' = y + 1
          /\ x' = x
     ELSE /\ y' = 0
          /\ x' = x + 1
          /\ UNCHANGED <<img, writes>>
  /\ UNCHANGED <<nanLow16, fuseMulAdd, dst, src, mode, pc, call, inter, dst0, src0, err>>
  /\ UNCHANGED fnVars

\* The outer loop ends and Blend returns img, nil (blend.go:500, 511).
BlendReturn ==
  /\ pc = "Blend"
  /\ x >= Dx(dst.b)
  /\ pc' = "done"
  /\ UNCHANGED <<nanLow16, fuseMulAdd, dst, src, mode, call, inter, img, x, y, dst0, src0,
                 err, writes>>
  /\ UNCHANGED fnVars

(***************************************************************************)
(* The oldest revision (image.go): BlendImage(source, dest, mode) returns  *)
(* (image, error).  Its pixel function Blend(c1, c2, mode) is not in the   *)
(* files at hand: it is taken to apply the mode to the two colours, the    *)
(* source first as in the historical revision.                             *)
(***************************************************************************)
Blend(c1, c2, m) == CallHistMode(m, c1, c2)

\* getWidthAndHeight(img), as <<width, height>>.
getWidthAndHeight(im) == <<im.b.maxX - im.b.minX, im.b.maxY - im.b.minY>>

\* The messages of the BlendError values of image.go.
ImageErrors ==
  [colorModel |-> "Source and destination images have different color models.",
   widths |-> "Source and destination images have different widths.",
   heights |-> "Source and destination images have different heights."]

\* BlendImage(src, dst, m) of image.go up to an error return or its first
\* loop test (image.go:7-25); source is src and dest is dst.
OldestBlendImageCall(m) ==
  /\ pc = "idle"
  /\ mode' = m
  /\ call' = "OldestBlendImage"
  /\ dst0' = dst
  /\ src0' = src
  /\ IF src.kind # dst.kind
     THEN /\ err' = ImageErrors.colorModel
          /\ pc' = "done"
          /\ UNCHANGED img
     ELSE IF getWidthAndHeight(src)[1] # getWidthAndHeight(dst)[1]
     THEN /\ err' = ImageErrors.widths
          /\ pc' = "done"
          /\ UNCHANGED img
     ELSE IF getWidthAndHeight(src)[2] # getWidthAndHeight(dst)[2]
     THEN /\ err' = ImageErrors.heights
          /\ pc' = "done"
          /\ UNCHANGED img
     ELSE /\ err' = "nil"
          /\ pc' = "OldestBlendImage"
          /\ img' = NewRGBA64(Rect(0, 0, getWidthAndHeight(dst)[1],
                                   getWidthAndHeight(dst)[2]))
  /\ x' = 0
  /\ y' = 0
  /\ UNCHANGED <<nanLow16, fuseMulAdd, dst, src, inter, writes>>
  /\ UNCHANGED fnVars

\* One iteration of the inner loop over y, or the end of a column
\* (image.go:25-29).
OldestBlendImageStep ==
  /\ pc = "OldestBlendImage"
  /\ x < getWidthAndHeight(dst)[1]
  /\ IF y < getWidthAndHeight(dst)[2]
     THEN /\ img' = Set(img, <<x, y>>,
                        Blend(At(src, <<x, y>>), At(dst, <<x, y>>), mode))
          /\ writes' = Append(writes, <<x, y>>)
          /\ y' = y + 1
          /\ x' = x
     ELSE /\ y' = 0
          /\ x' = x + 1
          /\ UNCHANGED <<img, writes>>
  /\ UNCHANGED <<nanLow16, fuseMulAdd, dst, src, mode, pc, call, inter, dst0, src0, err>>
  /\ UNCHANGED fnVars

\* The outer loop ends and BlendImage returns img, nil (image.go:25, 31).
OldestBlendImageReturn ==
  /\ pc = "OldestBlendImage"
  /\ x >= getWidthAndHeight(dst)[1]
  /\ pc' = "done"
  /\ UNCHANGED <<nanLow16, fuseMulAdd, dst, src, mode, call, inter, img, x, y, dst0, src0,
                 err, writes>>
  /\ UNCHANGED fnVars

NextBlend ==
  \/ \E m \in HistModes : BlendCall(m)
  \/ BlendStep
  \/ BlendReturn
  \/ \E m \in HistModes : OldestBlendImageCall(m)
  \/ OldestBlendImageStep
  \/ OldestBlendImageReturn

SpecBlend == Init /\ [][NextBlend]_vars

(***************************************************************************)
(* Properties.                                                             *)
(***************************************************************************)
\* p lies in the bounds of both images of the call.
InBoth(p) == In(p, dst0.b) /\ In(p, src0.b)

Red == RGBA64Color(65535, 0, 0, 65535)

Blue == RGBA64Color(0, 0, 65535, 65535)

\* C1: during and after BlendImage(dst, src, mode) every coordinate written
\* so far lies in both bounds and was written once; a written coordinate
\* holds mode(dst0[p], src0[p]) as dst's colour model stores it, every other
\* coordinate its original value; when the call has returned the written
\* coordinates are exactly those of the intersection; src is never changed.
C1_BlendImageFrame ==
  call = "BlendImage" =>
    /\ src = src0
    /\ dst.b = dst0.b
    /\ dst.kind = dst0.kind
    /\ \A i, j \in 1 .. Len(writes) : i # j => writes[i] # writes[j]
    /\ \A p \in Written : InBoth(p)
    /\ \A p \in Points(dst0.b) :
         dst.pix[p] =
           IF p \in Written
           THEN Convert(dst0.kind, CallMode(mode, At(dst0, p), At(src0, p)))
           ELSE dst0.pix[p]
    /\ pc = "done" => Written = {p \in Points(dst0.b) : InBoth(p)}

\* A BlendImage call has returned after writing some, but not all,
\* coordinates of a dst whose origin is not (0,0).
C1_Witness ==
  /\ pc = "done"
  /\ call = "BlendImage"
  /\ dst0.b.minX = 1
  /\ Written # {}
  /\ Written # Points(dst0.b)
  /\ dst # dst0

\* C2: when BlendNewImage(dst, src, mode) has returned, the result has dst's
\* bounds, every coordinate p of them reads as mode(dst[p], src[p]) inside
\* the intersection and as dst[p] outside it, and dst and src are unchanged.
C2_BlendNewImageResult ==
  (pc = "done" /\ call = "BlendNewImage") =>
    /\ img.b = dst0.b
    /\ dst = dst0
    /\ src = src0
    /\ \A p \in Points(dst0.b) :
         RGBA(At(img, p)) =
           IF InBoth(p)
           THEN RGBA(CallMode(mode, At(dst0, p), At(src0, p)))
           ELSE RGBA(At(dst0, p))

\* C3: a call whose images have different colour models writes no pixel and
\* returns the IncompatibleColorModel error.
C3_ColorModelChecked ==
  (call # "none" /\ dst0.kind # src0.kind) =>
    /\ writes = <<>>
    /\ pc = "done" => err = "IncompatibleColorModel"

\* C4: a per-channel mode returns (bf(d.r, s.r), bf(d.g, s.g), bf(d.b, s.b),
\* d.a): the alpha read back is the destination's whatever the source's is,
\* and Multiply of opaque red and opaque blue is opaque black.
C4_PerChannel ==
  (op = "mode" /\ arg \in DOMAIN PerChannel) =>
    LET d  == args[1]
        s  == args[2]
        bf == PerChannel[arg]
    IN  /\ res.t = "rgbaf64"
        /\ res.r = CallBf(bf, F64(d.r), F64(s.r))
        /\ res.g = CallBf(bf, F64(d.g), F64(s.g))
        /\ res.b = CallBf(bf, F64(d.b), F64(s.b))
        /\ res.a = F64(d.a)
        /\ RGBA(res)[4] = d.a
        /\ (arg = "Multiply" /\ d = Red /\ s = Blue) =>
             RGBA(res) = <<0, 0, 0, 65535>>

\* A per-channel mode was applied to colours of different alpha.
C4_Witness ==
  /\ op = "mode"
  /\ arg = "Multiply"
  /\ args[1].a # args[2].a
  /\ args[1].r # args[2].r
  /\ RGBA(res)[4] = args[1].a

\* C5: DarkerColor and LighterColor return a colour with the destination's
\* alpha.
C5_WholeColorAlpha ==
  (op = "mode" /\ arg \in {"DarkerColor", "LighterColor"}) =>
    RGBA(res)[4] = RGBA(args[1])[4]

\* C6: every pixel of the image BlendNewImage returns reads back the full
\* 16-bit channels: those of dst outside the intersection, those of
\* rgbaf64.RGBA of the mode's result inside it.
C6_FullChannels ==
  (pc = "done" /\ call = "BlendNewImage") =>
    \A p \in Points(dst0.b) :
      LET c == IF InBoth(p) THEN CallMode(mode, At(dst0, p), At(src0, p))
               ELSE At(dst0, p)
      IN  \A i \in 1 .. 4 : RGBA(At(img, p))[i] = RGBA(c)[i]

\* C7: float64ToUint16(v) lies in 0..65535; it is 0 below 0 and 65535 above
\* 65535; otherwise it is the integer part r of the float64 sum v + 0.5
\* (add 0.5 and truncate), which is v rounded half up, r - 1/2 <= v < r + 1/2,
\* for every v but the largest float64 below 0.5, where the sum itself rounds
\* to 1; it is monotone and fixes the integers.
C7_ClampRound ==
  op = "float64ToUint16" =>
    LET v == args[1]
    IN  /\ res \in 0 .. max
        /\ F64Lt(v, F64(0)) => res = 0
        /\ F64Gt(v, F64(max)) => res = max
        /\ (v.k = "fin" /\ ~F64Lt(v, F64(0)) /\ ~F64Gt(v, F64(max))) =>
             /\ F64Cmp(F64(res), F64Add(v, Half)) <= 0
             /\ F64Cmp(F64Add(v, Half), F64(res + 1)) < 0
             /\ ~F64Eq(v, BelowHalf) =>
                  /\ F64Cmp(F64Sub(F64(res), Half), v) <= 0
                  /\ F64Cmp(v, F64Add(F64(res), Half)) < 0
        /\ \A i \in ChanVals : F64Eq(v, F64(i)) => res = i
        /\ \A w \in FloatSamples : F64Lt(w, v) => float64ToUint16(w) <= res

\* The value 32767.5 was converted: it rounds up.
C7_Witness ==
  /\ op = "float64ToUint16"
  /\ F64Eq(args[1], mid)
  /\ res = 32768

\* C8: color2rgbaf64 followed by rgbaf64.RGBA returns the four channels of a
\* 16-bit colour.
C8_RoundTrip ==
  op = "roundtrip" =>
    res = <<args[1].r, args[1].g, args[1].b, args[1].a>>

\* A colour with four different channels, none of them 0 or 65535, made the
\* round trip.
C8_Witness ==
  /\ op = "roundtrip"
  /\ args[1].r = 32768
  /\ args[1].g = 1
  /\ res = <<32768, 1, 32767, 65534>>

\* C9: the clamped and rounded result of every channel function is an
\* integer in 0..65535 that the inputs determine: it is the same on every
\* build.
C9_ChannelResultDefined ==
  op = "channel" =>
    \A n \in NaNLow16 :
      /\ Float64ToUint16On(res, n) \in 0 .. max
      /\ Float64ToUint16On(res, n) = float64ToUint16(res)

\* C10: darken(d, d) = d, lighten(d, d) = d, multiply(max, d) = d and
\* screen(0, d) = d, as float64 values.
C10_Identities ==
  op = "channel" =>
    /\ (arg \in {"darken", "lighten"} /\ args[1] = args[2]) =>
         F64Eq(res, F64(args[1]))
    /\ (arg = "multiply" /\ args[1] = max) => F64Eq(res, F64(args[2]))
    /\ (arg = "screen" /\ args[1] = 0) => F64Eq(res, F64(args[2]))

\* multiply(max, d) was computed for a d that is neither 0 nor max.
C10_Witness ==
  /\ op = "channel"
  /\ arg = "multiply"
  /\ args[1] = max
  /\ args[2] = 32767
  /\ F64Eq(res, F64(32767))

\* C11: difference(d, s) = difference(s, d) = |s - d|, and the Difference
\* mode gives the same r, g, b when dst and src are swapped.
C11_DifferenceSymmetric ==
  /\ (op = "channel" /\ arg = "difference") =>
       /\ F64Eq(res, difference(F64(args[2]), F64(args[1])))
       /\ F64Eq(res, F64(IF args[1] < args[2] THEN args[2] - args[1]
                         ELSE args[1] - args[2]))
  /\ (op = "mode" /\ arg = "Difference") =>
       \A i \in 1 .. 3 :
         RGBA(res)[i] = RGBA(CallMode("Difference", args[2], args[1]))[i]

\* difference was computed for a destination below the source.
C11_Witness ==
  /\ op = "channel"
  /\ arg = "difference"
  /\ args = <<1, 32768>>
  /\ F64Eq(res, F64(32767))

\* C12: vividLight(d, s) is colorBurn(d, 2s) when s < mid and
\* colorDodge(d, 2(s - mid)) otherwise: d in the destination position and
\* the doubled source in the source position of the helper.
C12_VividLightCanonical ==
  (op = "channel" /\ arg = "vividLight") =>
    F64Eq(res,
          IF F64Lt(F64(args[2]), mid)
          THEN colorBurn(F64(args[1]), F64Mul(F64(2), F64(args[2])))
          ELSE colorDodge(F64(args[1]),
                          F64Mul(F64(2), F64Sub(F64(args[2]), mid))))

\* C13: linearLight(d, s) is linearBurn(d, 2s) when s < mid and
\* linearDodge(d, 2(s - mid)) otherwise; pinLight(d, s) is darken(d, 2s)
\* when s < mid and lighten(d, 2(s - mid)) otherwise.
C13_LinearPinCanonical ==
  /\ (op = "channel" /\ arg = "linearLight") =>
       F64Eq(res,
             IF F64Lt(F64(args[2]), mid)
             THEN linearBurn(F64(args[1]), F64Mul(F64(2), F64(args[2])))
             ELSE linearDodge(F64(args[1]),
                              F64Mul(F64(2), F64Sub(F64(args[2]), mid))))
  /\ (op = "channel" /\ arg = "pinLight") =>
       F64Eq(res,
             IF F64Lt(F64(args[2]), mid)
             THEN darken(F64(args[1]), F64Mul(F64(2), F64(args[2])))
             ELSE lighten(F64(args[1]),
                          F64Mul(F64(2), F64Sub(F64(args[2]), mid))))

\* linearLight took its burn branch with a result that is neither 0 nor an
\* argument.
C13_Witness ==
  /\ op = "channel"
  /\ arg = "linearLight"
  /\ args = <<65534, 32767>>
  /\ F64Eq(res, F64(65533))

\* C14: for s >= 1, divide(d, s) is d * max / s, with nothing added.
C14_DivideNoOffset ==
  (op = "channel" /\ arg = "divide" /\ args[2] >= 1) =>
    F64Eq(res, F64Div(F64Mul(F64(args[1]), fmax), F64(args[2])))

\* C15: the channel written for divide with s = 0 is max for every d.
C15_DivideByZeroSaturates ==
  (op = "channel" /\ arg = "divide" /\ args[2] = 0) =>
    float64ToUint16(res) = max

\* C16: DarkerColor and LighterColor return one of their two arguments:
\* DarkerColor one whose r + g + b is the smaller of the two sums,
\* LighterColor one whose sum is the larger.
C16_WholeColorChoice ==
  (op = "mode" /\ arg \in {"DarkerColor", "LighterColor"}) =>
    /\ res \in {args[1], args[2]}
    /\ \A c \in {args[1], args[2]} :
         IF arg = "DarkerColor"
         THEN F64Cmp(SumRGB(color2rgbaf64(res)), SumRGB(color2rgbaf64(c))) <= 0
         ELSE F64Cmp(SumRGB(color2rgbaf64(res)), SumRGB(color2rgbaf64(c))) >= 0

\* DarkerColor returned a source that is darker than the destination.
C16_Witness ==
  /\ op = "mode"
  /\ arg = "DarkerColor"
  /\ args[1] # args[2]
  /\ res = args[2]
  /\ F64Lt(SumRGB(color2rgbaf64(args[2])), SumRGB(color2rgbaf64(args[1])))

\* C17: the value a channel function returns lies in [0, 65535] before it
\* is clamped.
C17_PreClampRange ==
  op = "channel" =>
    /\ res.k = "fin"
    /\ F64Cmp(F64(0), res) <= 0
    /\ F64Cmp(res, fmax) <= 0

\* C19: in every channel function but divide each division has a divisor
\* that is not zero, and the result is a finite number.
C19_NoDivisionByZero ==
  (op = "channel" /\ arg # "divide") =>
    /\ \A q \in Divisors(arg, F64(args[1]), F64(args[2])) :
         q.k = "fin" /\ ~IsZero(q)
    /\ res.k = "fin"

\* vividLight reached colorDodge with its guarded operand equal to max: the
\* guard returned before the division.
C19_Witness ==
  /\ op = "channel"
  /\ arg = "vividLight"
  /\ args = <<max, 32768>>
  /\ Divisors(arg, F64(args[1]), F64(args[2])) = {}
  /\ F64Eq(res, fmax)

\* C18: when the loop body of BlendImage has been applied to every
\* coordinate of the intersection, in row-major order or in any other
\* order, dst is the one image BlendImageResult(dst0, src0, mode), and src
\* is unchanged; while coordinates remain, the processed ones already hold
\* their final value and the others their original one.
C18_OrderIndependent ==
  call \in {"BlendImage", "AnyOrder"} =>
    /\ src = src0
    /\ \A p \in Points(dst0.b) :
         dst.pix[p] = IF p \in Written
                      THEN BlendPixel(dst0, src0, mode, p).pix[p]
                      ELSE dst0.pix[p]
    /\ pc = "done" => dst = BlendImageResult(dst0, src0, mode)

\* Coordinates were processed in an order that is not row-major: the last
\* coordinate of a three or four pixel intersection is written, the first
\* is not.
C18_Witness ==
  /\ call = "AnyOrder"
  /\ pc = "AnyOrder"
  /\ Cardinality(Points(inter)) >= 3
  /\ <<inter.maxX - 1, inter.maxY - 1>> \in Written
  /\ <<inter.minX, inter.minY>> \notin Written
  /\ dst # dst0

\* C20: after every call of a sequence of BlendImage(dst, src, Darken) calls
\* on a 16-bit dst, dst is what the first call left; the image a chain of
\* BlendNewImage calls returns is what the first call returned; likewise
\* for Lighten.
C20_RepeatIdempotent ==
  pc = "done" =>
    /\ call = "BlendImage" => dst = BlendImageResult(dst0, src0, mode)
    /\ call = "BlendNewImage" => img = BlendNewImageResult(dst0, src0, mode)

\* A second BlendImage call with Darken has returned, on an intersection
\* the first call changed.
C20_Witness ==
  /\ pc = "done"
  /\ call = "BlendImage"
  /\ mode = "Darken"
  /\ inter # ZR
  /\ Len(writes) = 2 * SetsPerCall
  /\ dst # dst0

\* C21: when the historical Blend(src, dst, mode) has returned without
\* error, the image has dst's bounds and every coordinate of them was
\* assigned: the blended pixel inside src's bounds, dst's pixel elsewhere (as
\* the result image stores them).
C21_BlendAssignsAll ==
  (call = "Blend" /\ pc = "done" /\ err = "nil") =>
    /\ img.b = dst0.b
    /\ \A p \in Points(dst0.b) :
         /\ p \in Written
         /\ img.pix[p] =
              Convert("RGBA",
                      IF In(p, src0.b)
                      THEN CallHistMode(mode, At(src0, p), At(dst0, p))
                      ELSE At(dst0, p))
====
